---- MODULE Spec2Model ----
(***************************************************************************)
(* MindGuardian (src/main.py): the SQLite profile store (MemoryBank), the   *)
(* 50/10 schedule generator (CalendarTool), the threshold burnout detector *)
(* (SentinelAgent) and the sequential session runner (MindGuardian).       *)
(*                                                                         *)
(* Python values are modelled as follows: str as a TLA+ string, int as an  *)
(* integer, list as a sequence, a dict with string keys as a function (or  *)
(* record) over its keys, an Optional value as a tagged record (PyNone /   *)
(* Some(v)), a datetime as a number of minutes.                            *)
(***************************************************************************)
EXTENDS Integers, Sequences, FiniteSets, TLC

VARIABLES
    \* SentinelAgent.check_signals called on its own
    cs_in,              \* the session_data dict handed to check_signals
    cs_out,             \* the BurnoutAlert it returned (NoResult before the call)
    \* CalendarTool.execute called on its own
    cal_d,              \* duration_minutes
    cal_now,            \* datetime.now() at the call, in minutes
    cal_out,            \* the dict it returned (NoResult before the call)
    \* MemoryBank
    store,              \* table profiles: user_id -> row (NoRow when absent)
    now,                \* the wall clock read by datetime.now()
    op,                 \* the last direct MemoryBank / TwinBuilderAgent call and its result
    lastSaved,          \* history: user_id -> the profile last handed to save_profile
    \* MindGuardian
    user_id,            \* self.user_id
    session_data,       \* self.session_data
    pc,                 \* position of run_session
    step,               \* loop variable of the Sentinel loop
    goals,              \* run_session argument
    mood,               \* run_session argument
    profile,            \* run_session local
    schedule,           \* run_session local
    revised_schedule,   \* run_session local
    run_start,          \* history: the counters as run_session found them on entry
    coach_delivered,    \* calls of this object's CoachAgent.intervene
    runs                \* number of run_session calls made so far

vars == <<cs_in, cs_out, cal_d, cal_now, cal_out, store, now, op, lastSaved,
          user_id, session_data, pc, step, goals, mood, profile, schedule,
          revised_schedule, run_start, coach_delivered, runs>>

sentinelVars == <<cs_in, cs_out>>
calendarVars == <<cal_d, cal_now, cal_out>>
bankVars     == <<store, now, op, lastSaved>>
guardianVars == <<user_id, session_data, pc, step, goals, mood, profile, schedule,
                  revised_schedule, run_start, coach_delivered, runs>>

----------------------------------------------------------------------------
(* Bounds *)

MaxDuration == 180      \* largest duration_minutes handed to CalendarTool.execute
MaxWork     == 50       \* largest continuous_work_minutes handed to check_signals
MaxHist     == 2        \* longest mood_history a stored profile grows to
MaxTime     == 1        \* datetime.now() ranges over 0..MaxTime
MaxRuns     == 2        \* run_session calls recorded in the database

NoResult == [none |-> TRUE]

Min(a, b) == IF a <= b THEN a ELSE b

\* dict.get(key, default)
Get(d, k, default) == IF k \in DOMAIN d THEN d[k] ELSE default

RECURSIVE SumSeq(_)
SumSeq(s) == IF s = <<>> THEN 0 ELSE Head(s) + SumSeq(Tail(s))

----------------------------------------------------------------------------
(* SentinelAgent.check_signals *)

BurnoutAlert(severity, signals, suggested_action) ==
    [severity |-> severity, signals |-> signals, suggested_action |-> suggested_action]

\* a plausible slip: the work threshold taken inclusively (work >= 45)
check_signals_inclusive(sd) ==
    LET m == Get(sd, "current_mood", 5)
        s == Get(sd, "task_skips", 0)
        w == Get(sd, "continuous_work_minutes", 0)
        signals == (IF m < 3 THEN <<"low_mood">> ELSE <<>>)
                   \o (IF s > 2 THEN <<"high_skips">> ELSE <<>>)
                   \o (IF w >= 45 THEN <<"overwork">> ELSE <<>>)
        severity == IF Len(signals) > 1 THEN "HIGH"
                    ELSE IF signals # <<>> THEN "MEDIUM" ELSE "LOW"
    IN  BurnoutAlert(severity, signals, IF severity # "LOW" THEN "replan" ELSE "continue")

check_signals(sd) ==
    LET m == Get(sd, "current_mood", 5)
        s == Get(sd, "task_skips", 0)
        w == Get(sd, "continuous_work_minutes", 0)
        signals == (IF m < 3 THEN <<"low_mood">> ELSE <<>>)
                   \o (IF s > 2 THEN <<"high_skips">> ELSE <<>>)
                   \o (IF w > 45 THEN <<"overwork">> ELSE <<>>)
        severity == IF Len(signals) > 1 THEN "HIGH"
                    ELSE IF signals # <<>> THEN "MEDIUM" ELSE "LOW"
    IN  BurnoutAlert(severity, signals, IF severity # "LOW" THEN "replan" ELSE "continue")

----------------------------------------------------------------------------
(* CalendarTool.execute *)

\* datetime.strftime("%H:%M"): the time of day, the date and the seconds dropped
strftime(t) == [h |-> (t \div 60) % 24, m |-> t % 60]

\* for i in range(0, duration_minutes, 50): ... with `now` advanced in the loop
RECURSIVE execute_loop(_, _, _, _)
execute_loop(i, t, d, sched) ==
    IF i >= d THEN sched
    ELSE LET end == Min(t + 50, t + d)
         IN  execute_loop(i + 50, end + 10, d,
                 Append(sched, [study_start    |-> strftime(t),
                                study_end      |-> strftime(end),
                                break_duration |-> "10min",
                                load_level     |-> "medium"]))

execute(duration_minutes, t) ==
    [schedule |-> execute_loop(0, t, duration_minutes, <<>>),
     total_duration |-> duration_minutes]

----------------------------------------------------------------------------
(* UserProfile *)

PyNone  == [tag |-> "None"]
Some(v) == [tag |-> "some", val |-> v]

\* datetime.isoformat(): the text of a datetime
isoformat(t) == [iso |-> t]

\* UserProfile(...) followed by __post_init__: the four container fields default
\* to empty containers when the argument is None; created_at stays as given
UserProfile(uid, a_goals, a_mood_history, a_burnout_patterns, a_peak_hours, a_task_completion_rate, a_created_at) ==
    [user_id              |-> uid,
     goals                |-> IF a_goals = PyNone THEN <<>> ELSE a_goals.val,
     mood_history         |-> IF a_mood_history = PyNone THEN <<>> ELSE a_mood_history.val,
     burnout_patterns     |-> IF a_burnout_patterns = PyNone THEN <<>>
                              ELSE a_burnout_patterns.val,
     peak_hours           |-> IF a_peak_hours = PyNone THEN <<>> ELSE a_peak_hours.val,
     task_completion_rate |-> a_task_completion_rate,
     created_at           |-> a_created_at]

----------------------------------------------------------------------------
(* json.dumps / json.loads on a profile *)

JNull   == [j |-> "null"]
JStr(s) == [j |-> "string", v |-> s]
JNum(n) == [j |-> "number", v |-> n]
JArr(a) == [j |-> "array",  v |-> a]
JObj(o) == [j |-> "object", v |-> o]

\* the empty text '', which no json.dumps produces
EmptyText == [j |-> "empty"]

\* a mood_history entry {"timestamp": str, "mood": int, "context": str}
dumps_entry(e) ==
    JObj([timestamp |-> JStr(e.timestamp), mood |-> JNum(e.mood),
          context |-> JStr(e.context)])

loads_entry(x) ==
    [timestamp |-> x.v.timestamp.v, mood |-> x.v.mood.v, context |-> x.v.context.v]

\* json.dumps(asdict(profile))
dumps(p) ==
    JObj([user_id              |-> JStr(p.user_id),
          goals                |-> JArr([i \in DOMAIN p.goals |-> JStr(p.goals[i])]),
          mood_history         |-> JArr([i \in DOMAIN p.mood_history |->
                                            dumps_entry(p.mood_history[i])]),
          burnout_patterns     |-> JObj([k \in DOMAIN p.burnout_patterns |->
                                            JNum(p.burnout_patterns[k])]),
          peak_hours           |-> JArr([i \in DOMAIN p.peak_hours |->
                                            JStr(p.peak_hours[i])]),
          task_completion_rate |-> JNum(p.task_completion_rate),
          created_at           |-> IF p.created_at = PyNone THEN JNull
                                   ELSE JStr(p.created_at.val)])

\* the Python value of a JSON list of strings / list of entries / object / string,
\* None for null
loads_opt_strs(x) ==
    IF x = JNull THEN PyNone ELSE Some([i \in DOMAIN x.v |-> x.v[i].v])
loads_opt_entries(x) ==
    IF x = JNull THEN PyNone ELSE Some([i \in DOMAIN x.v |-> loads_entry(x.v[i])])
loads_opt_nums(x) ==
    IF x = JNull THEN PyNone ELSE Some([k \in DOMAIN x.v |-> x.v[k].v])
loads_opt_str(x) ==
    IF x = JNull THEN PyNone ELSE Some(x.v)

\* UserProfile(**json.loads(text))
loads_profile(text) ==
    UserProfile(text.v.user_id.v,
                loads_opt_strs(text.v.goals),
                loads_opt_entries(text.v.mood_history),
                loads_opt_nums(text.v.burnout_patterns),
                loads_opt_strs(text.v.peak_hours),
                text.v.task_completion_rate.v,
                loads_opt_str(text.v.created_at))

----------------------------------------------------------------------------
(* MemoryBank *)

UserIds == {"student_123", "demo_student"}

NoRow == [none |-> TRUE]

Returned(v) == [raised |-> FALSE, value |-> v]
Raised(e)   == [raised |-> TRUE, value |-> e]

\* a plausible slip: `if result[0]:` without the `result and` guard, so that a
\* missing row (fetchone() = None) raises TypeError
load_profile_unguarded(st, uid, t) ==
    IF st[uid] = NoRow THEN Raised("TypeError")
    ELSE IF st[uid].profile # EmptyText THEN Returned(loads_profile(st[uid].profile))
    ELSE Returned(UserProfile(uid, PyNone, PyNone, PyNone, PyNone, 0, Some(isoformat(t))))

load_profile(st, uid, t) ==
    IF st[uid] # NoRow /\ st[uid].profile # EmptyText
    THEN Returned(loads_profile(st[uid].profile))
    ELSE Returned(UserProfile(uid, PyNone, PyNone, PyNone, PyNone, 0, Some(isoformat(t))))

Row(p, t) == [user_id |-> p.user_id, profile |-> dumps(p), updated_at |-> t]

\* a plausible slip: INSERT OR IGNORE, which keeps the first row of a user id
save_profile_ignore(st, p, t) ==
    IF st[p.user_id] # NoRow THEN st ELSE [st EXCEPT ![p.user_id] = Row(p, t)]

\* a plausible slip: the table emptied before the insert
save_profile_truncate(st, p, t) ==
    [u \in DOMAIN st |-> IF u = p.user_id THEN Row(p, t) ELSE NoRow]

\* INSERT OR REPLACE INTO profiles VALUES (user_id, json, now)
save_profile(st, p, t) ==
    [st EXCEPT ![p.user_id] = Row(p, t)]

----------------------------------------------------------------------------
(* TwinBuilderAgent.build_profile: the store it leaves and the profile it returns *)

MoodEntry(m, t) == [timestamp |-> isoformat(t), mood |-> m, context |-> "session_start"]

\* a plausible slip: the history replaced by the new entry instead of appended to
build_profile_reset(st, uid, gs, m, t) ==
    LET p0 == load_profile(st, uid, t).value
        p1 == [p0 EXCEPT !.goals = gs, !.mood_history = <<MoodEntry(m, t)>>]
    IN  [store |-> save_profile(st, p1, t), profile |-> p1]

build_profile(st, uid, gs, m, t) ==
    LET p0 == load_profile(st, uid, t).value
        p1 == [p0 EXCEPT !.goals = gs,
                         !.mood_history = Append(p0.mood_history, MoodEntry(m, t))]
    IN  [store |-> save_profile(st, p1, t), profile |-> p1]

----------------------------------------------------------------------------
(* Values the calls are tried on *)

Moods     == 1..5
GoalLists == {<<>>, <<"3hrs math review", "2hrs physics notes", "exam tomorrow">>}

SentinelKeys == {"current_mood", "task_skips", "continuous_work_minutes"}
SentinelInputs ==
    { [k \in K |-> full[k]] :
        full \in [current_mood : 0..6, task_skips : 0..4,
                  continuous_work_minutes : (0..MaxWork) \cup {60, 75}],
        K \in SUBSET SentinelKeys }

\* 00:00, 10:15, 23:00 and 23:59 of the first day
CalStarts == {0, 615, 1380, 1439}

\* profiles as a caller constructs them: UserProfile(...) with the optional
\* arguments left out, given in part, or all given
BankMoods == {2, 4}

InputProfiles ==
    { UserProfile(u, a.g, a.mh, a.bp, a.ph, a.r, a.c) :
        u \in UserIds,
        a \in { [g |-> PyNone, mh |-> PyNone, bp |-> PyNone, ph |-> PyNone, r |-> 0,
                 c |-> PyNone],
                [g |-> Some(<<"3hrs math review">>), mh |-> PyNone, bp |-> PyNone,
                 ph |-> Some(<<>>), r |-> 0, c |-> Some(isoformat(0))],
                [g |-> Some(<<"2hrs physics notes", "exam tomorrow">>),
                 mh |-> Some(<<[timestamp |-> isoformat(0), mood |-> 4,
                                context |-> "session_start"]>>),
                 bp |-> Some([math |-> 90]), ph |-> Some(<<"10-12">>), r |-> 85,
                 c |-> Some(isoformat(0))] } }

----------------------------------------------------------------------------
(* Initial values *)

SentinelIdle == cs_in = NoResult /\ cs_out = NoResult
CalendarIdle == cal_d = 0 /\ cal_now = 0 /\ cal_out = NoResult

NoOp == [name |-> "none", user |-> "", arg |-> NoResult, result |-> NoResult]

\* MemoryBank.__init__ / init_db on a new database file: an empty table
BankInit ==
    /\ store = [u \in UserIds |-> NoRow]
    /\ now \in 0..MaxTime      \* the clock reading, any value
    /\ op = NoOp
    /\ lastSaved = [u \in UserIds |-> NoResult]

BankIdle ==
    /\ store = [u \in UserIds |-> NoRow]
    /\ now = 0
    /\ op = NoOp
    /\ lastSaved = [u \in UserIds |-> NoResult]

\* the dict MindGuardian.__init__ builds
NewSessionData ==
    [task_skips |-> 0, current_mood |-> 5, continuous_work_minutes |-> 0,
     interventions |-> 0, observability_log |-> <<>>]

Counters(sd) ==
    [task_skips |-> sd.task_skips, continuous_work_minutes |-> sd.continuous_work_minutes,
     interventions |-> sd.interventions, observability_log |-> sd.observability_log]

GuardianIdle ==
    /\ user_id = "student_123"
    /\ session_data = NewSessionData
    /\ pc = "idle"
    /\ step = 0
    /\ goals = <<>>
    /\ mood = 0
    /\ profile = NoResult
    /\ schedule = NoResult
    /\ revised_schedule = NoResult
    /\ run_start = NoResult
    /\ coach_delivered = 0
    /\ runs = 0

----------------------------------------------------------------------------
(* check_signals on its own *)

InitSentinel ==
    /\ cs_in \in SentinelInputs
    /\ cs_out = NoResult
    /\ CalendarIdle /\ BankIdle /\ GuardianIdle

CheckSignals ==
    /\ cs_in # NoResult
    /\ cs_out = NoResult
    /\ cs_out' = check_signals(cs_in)
    /\ UNCHANGED <<cs_in, calendarVars, bankVars, guardianVars>>

NextSentinel == CheckSignals

SpecSentinel == InitSentinel /\ [][NextSentinel]_vars

----------------------------------------------------------------------------
(* CalendarTool.execute on its own *)

InitCalendar ==
    /\ cal_d \in 0..MaxDuration
    /\ cal_now \in CalStarts
    /\ cal_out = NoResult
    /\ SentinelIdle /\ BankIdle /\ GuardianIdle

CalendarExecute ==
    /\ cal_out = NoResult
    /\ cal_out' = execute(cal_d, cal_now)
    /\ UNCHANGED <<cal_d, cal_now, sentinelVars, bankVars, guardianVars>>

NextCalendar == CalendarExecute

SpecCalendar == InitCalendar /\ [][NextCalendar]_vars

----------------------------------------------------------------------------
(* MemoryBank and TwinBuilderAgent called directly *)

InitBank == BankInit /\ SentinelIdle /\ CalendarIdle /\ GuardianIdle

\* the profile load_profile would return for uid
Stored(st, uid) == load_profile(st, uid, 0).value

SaveProfile(p) ==
    /\ store' = save_profile(store, p, now)
    /\ lastSaved' = [lastSaved EXCEPT ![p.user_id] = p]
    /\ op' = [name |-> "save", user |-> p.user_id, arg |-> p, result |-> NoResult]
    /\ UNCHANGED <<now, sentinelVars, calendarVars, guardianVars>>

LoadProfile(uid) ==
    /\ op' = [name |-> "load", user |-> uid, arg |-> NoResult,
              result |-> load_profile(store, uid, now)]
    /\ UNCHANGED <<store, now, lastSaved, sentinelVars, calendarVars, guardianVars>>

BuildProfile(uid, gs, m) ==
    /\ Len(Stored(store, uid).mood_history) < MaxHist
    /\ LET r == build_profile(store, uid, gs, m, now)
       IN  /\ store' = r.store
           /\ lastSaved' = [lastSaved EXCEPT ![uid] = r.profile]
           /\ op' = [name |-> "build", user |-> uid, arg |-> [goals |-> gs, mood |-> m],
                     result |-> r.profile]
    /\ UNCHANGED <<now, sentinelVars, calendarVars, guardianVars>>

NextBank ==
    \/ \E p \in InputProfiles : SaveProfile(p)
    \/ \E uid \in UserIds : LoadProfile(uid)
    \/ \E uid \in UserIds, gs \in GoalLists, m \in BankMoods : BuildProfile(uid, gs, m)

SpecBank == InitBank /\ [][NextBank]_vars

----------------------------------------------------------------------------
(* PlannerAgent, EvaluatorAgent *)

\* "math" in g.lower(), over the goal strings used here
ContainsMath(g) == g \in {"3hrs math review"}

generate_schedule(gs, prof, t) ==
    [schedule |-> execute(180, t).schedule,
     total_duration |-> execute(180, t).total_duration,
     tasks |-> [i \in DOMAIN gs |->
                  [goal |-> gs[i], load |-> IF ContainsMath(gs[i]) THEN "high" ELSE "medium"]]]

\* completion_rate 0.85 as a percentage, mood_improvement 1.2 in tenths
evaluate_session(sd, prof) ==
    [completion_rate |-> 85, mood_improvement |-> 12,
     alerts_triggered |-> sd.interventions,
     recommendation |-> "Increase breaks on Wednesdays"]

----------------------------------------------------------------------------
(* MindGuardian *)

\* a plausible slip: one iteration too many
LoopSteps_six == 5 + 1
\* for step in range(5)
LoopSteps == 5

log_event(sd, agent, event, data, t) ==
    [sd EXCEPT !.observability_log =
        Append(@, [timestamp |-> isoformat(t), agent |-> agent, event |-> event,
                   data |-> data])]

\* a plausible slip (and what the demo's comment expects): the mood argument
\* written to the counters the Sentinel reads
session_start_sets_mood(sd, m, t) ==
    log_event([sd EXCEPT !.current_mood = m], "TwinBuilder", "profile_updated",
              [mood |-> m], t)

\* what run_session does to session_data before the Planner runs
session_start(sd, m, t) ==
    log_event(sd, "TwinBuilder", "profile_updated", [mood |-> m], t)

\* "Simulate session progression": step is the 0-based loop variable
simulate_progress(sd, k) ==
    [sd EXCEPT !.continuous_work_minutes = @ + 15,
               !.task_skips = IF k > 2 THEN @ + 1 ELSE @]

\* a plausible slip: the Coach called on HIGH alerts only
needs_intervention_high(alert) == alert.severity = "HIGH"

\* if alert.severity != "LOW"
needs_intervention(alert) == alert.severity # "LOW"

\* MindGuardian(uid): a new object on the same database file
NewGuardian(uid) ==
    /\ pc = "idle"
    /\ user_id' = uid
    /\ session_data' = NewSessionData
    /\ runs' = 0
    /\ coach_delivered' = 0
    /\ step' = 0
    /\ goals' = <<>>
    /\ mood' = 0
    /\ profile' = NoResult
    /\ schedule' = NoResult
    /\ revised_schedule' = NoResult
    /\ run_start' = NoResult
    /\ UNCHANGED <<pc, bankVars, sentinelVars, calendarVars>>

\* the number of sessions recorded in the database
RECURSIVE Sessions(_, _)
Sessions(st, us) ==
    IF us = {} THEN 0
    ELSE LET u == CHOOSE x \in us : TRUE
         IN  Len(Stored(st, u).mood_history) + Sessions(st, us \ {u})

\* run_session, step 1: TwinBuilder
RunTwinBuilder(gs, m) ==
    /\ pc = "idle"
    /\ Sessions(store, UserIds) < MaxRuns
    /\ run_start' = Counters(session_data)
    /\ goals' = gs
    /\ mood' = m
    /\ LET r == build_profile(store, user_id, gs, m, now)
       IN  /\ store' = r.store
           /\ profile' = r.profile
           /\ lastSaved' = [lastSaved EXCEPT ![user_id] = r.profile]
    /\ session_data' = session_start(session_data, m, now)
    /\ runs' = runs + 1
    /\ step' = 0
    /\ pc' = "planner"
    /\ UNCHANGED <<user_id, schedule, revised_schedule, coach_delivered, now, op,
                   sentinelVars, calendarVars>>

\* run_session, step 2: Planner
RunPlanner ==
    /\ pc = "planner"
    /\ schedule' = generate_schedule(goals, profile, now)
    /\ session_data' = log_event(session_data, "Planner", "schedule_generated",
                                 [tasks |-> Len(schedule'.tasks)], now)
    /\ pc' = "loop"
    /\ UNCHANGED <<user_id, step, goals, mood, profile, revised_schedule, run_start,
                   coach_delivered, runs, bankVars, sentinelVars, calendarVars>>

\* run_session, step 3: one iteration of the Sentinel loop
SentinelStep ==
    /\ pc = "loop"
    /\ step < LoopSteps
    /\ LET sd1   == simulate_progress(session_data, step)
           alert == check_signals(sd1)
           sd2   == log_event(sd1, "Sentinel", "alert_check", alert, now)
       IN  IF needs_intervention(alert)
           THEN /\ coach_delivered' = coach_delivered + 1
                /\ revised_schedule' = generate_schedule(goals, profile, now)
                /\ session_data' = [sd2 EXCEPT !.interventions = @ + 1]
           ELSE /\ session_data' = sd2
                /\ UNCHANGED <<coach_delivered, revised_schedule>>
    /\ step' = step + 1
    /\ UNCHANGED <<user_id, pc, goals, mood, profile, schedule, run_start, runs,
                   bankVars, sentinelVars, calendarVars>>

\* run_session, step 5: Evaluator, dashboard, return
RunEvaluator ==
    /\ pc = "loop"
    /\ step >= LoopSteps
    /\ session_data' = log_event(session_data, "Evaluator", "session_complete",
                                 evaluate_session(session_data, profile), now)
    /\ pc' = "idle"
    /\ UNCHANGED <<user_id, step, goals, mood, profile, schedule, revised_schedule,
                   run_start, coach_delivered, runs, bankVars, sentinelVars,
                   calendarVars>>

Init == GuardianIdle /\ BankInit /\ SentinelIdle /\ CalendarIdle

Next ==
    \/ \E uid \in UserIds : NewGuardian(uid)
    \/ \E gs \in GoalLists, m \in Moods : RunTwinBuilder(gs, m)
    \/ RunPlanner
    \/ SentinelStep
    \/ RunEvaluator

Spec == Init /\ [][Next]_vars

\* run_session is straight-line code: once called it runs to its return
FairSpec == Spec /\ WF_vars(RunPlanner) /\ WF_vars(SentinelStep) /\ WF_vars(RunEvaluator)

----------------------------------------------------------------------------
(* Claims *)

Log == session_data.observability_log

Breached(sd) ==
    (IF Get(sd, "current_mood", 5) < 3 THEN {"low_mood"} ELSE {})
    \cup (IF Get(sd, "task_skips", 0) > 2 THEN {"high_skips"} ELSE {})
    \cup (IF Get(sd, "continuous_work_minutes", 0) > 45 THEN {"overwork"} ELSE {})

\* C1: check_signals returns exactly the breached thresholds as its signals
\* (low_mood iff mood < 3, high_skips iff skips > 2, overwork iff work > 45, each on
\* its own), severity HIGH iff two or more fired, MEDIUM iff exactly one, LOW iff
\* none, and suggested_action replan iff the severity is not LOW, else continue.
C1_CheckSignals ==
    cs_out # NoResult =>
        LET n == Cardinality(Breached(cs_in))
        IN  /\ {cs_out.signals[i] : i \in DOMAIN cs_out.signals} = Breached(cs_in)
            /\ Len(cs_out.signals) = n
            /\ cs_out.severity \in {"LOW", "MEDIUM", "HIGH"}
            /\ (cs_out.severity = "HIGH") <=> (n >= 2)
            /\ (cs_out.severity = "MEDIUM") <=> (n = 1)
            /\ (cs_out.severity = "LOW") <=> (n = 0)
            /\ cs_out.suggested_action \in {"replan", "continue"}
            /\ (cs_out.suggested_action = "replan") <=> (cs_out.severity # "LOW")

C1_Witness ==
    /\ cs_out # NoResult
    /\ DOMAIN cs_in = SentinelKeys
    /\ cs_in.current_mood = 2 /\ cs_in.task_skips = 3
    /\ cs_in.continuous_work_minutes = 46
    /\ cs_out.severity = "HIGH"
    /\ cs_out.signals = <<"low_mood", "high_skips", "overwork">>

\* study_end minus study_start of a block, in minutes, from its two times of day
BlockMinutes(b) ==
    ((b.study_end.h * 60 + b.study_end.m) - (b.study_start.h * 60 + b.study_start.m)
        + 1440) % 1440

TotalWork(sched) == SumSeq([i \in DOMAIN sched |-> BlockMinutes(sched[i])])

\* C2: for every positive duration d, execute(d) schedules a total work time that
\* never exceeds d: every block lasts 50 minutes, except that the last one is cut
\* to d mod 50 minutes when d is not a multiple of 50.
C2_TotalWithinDuration ==
    (cal_out # NoResult /\ cal_d > 0) =>
        LET sched == cal_out.schedule
        IN  /\ TotalWork(sched) <= cal_d
            /\ \A i \in DOMAIN sched :
                  BlockMinutes(sched[i]) =
                      IF i = Len(sched) /\ cal_d % 50 # 0 THEN cal_d % 50 ELSE 50

\* C3: load_profile(u) returns a profile equal, field for field, to the profile
\* most recently handed to save_profile under user id u (save then load is a round
\* trip, and the last write of a user id wins).
C3_RoundTrip ==
    (op.name = "load" /\ lastSaved[op.user] # NoResult) =>
        /\ ~op.result.raised
        /\ op.result.value = lastSaved[op.user]

\* a load of a profile that was written at least twice (a saved one-entry history,
\* then a build on top of it) and that holds a non-empty mapping
C3_Witness ==
    /\ op.name = "load"
    /\ lastSaved[op.user] # NoResult
    /\ Len(op.result.value.mood_history) = 2
    /\ op.result.value.burnout_patterns = [math |-> 90]
    /\ op.result.value.created_at # PyNone

\* C4: load_profile(u) of a user id never saved raises nothing and returns a profile
\* with user_id u, empty goals, mood_history and peak_hours, an empty
\* burnout_patterns mapping and task_completion_rate 0.
C4_NeverSavedDefault ==
    (op.name = "load" /\ lastSaved[op.user] = NoResult) =>
        /\ ~op.result.raised
        /\ op.result.value.user_id = op.user
        /\ op.result.value.goals = <<>>
        /\ op.result.value.mood_history = <<>>
        /\ op.result.value.peak_hours = <<>>
        /\ DOMAIN op.result.value.burnout_patterns = {}
        /\ op.result.value.task_completion_rate = 0

C4_Witness ==
    /\ op.name = "load"
    /\ lastSaved[op.user] = NoResult
    /\ \E v \in UserIds : lastSaved[v] # NoResult

\* C5: every build_profile(u, goals, mood) leaves a stored profile of u whose
\* user_id is u and whose mood_history is the mood_history stored before (empty if
\* none) followed by exactly one entry with that mood and context session_start;
\* the rows of the other user ids stay as they were.
C5_AppendOnly ==
    [][ (op'.name = "build" /\ store' # store) =>
          LET u    == op'.user
              old  == Stored(store, u).mood_history
              new  == Stored(store', u).mood_history
          IN  /\ Stored(store', u).user_id = u
              /\ Len(new) = Len(old) + 1
              /\ SubSeq(new, 1, Len(old)) = old
              /\ new[Len(new)].mood = op'.arg.mood
              /\ new[Len(new)].context = "session_start"
              /\ \A v \in UserIds \ {u} :
                    Stored(store', v).mood_history = Stored(store, v).mood_history
      ]_vars

C5_Witness ==
    /\ op.name = "build"
    /\ Len(Stored(store, op.user).mood_history) = 2
    /\ Stored(store, op.user).mood_history[1].mood # op.arg.mood
    /\ \E v \in UserIds \ {op.user} : Stored(store, v).mood_history # <<>>

\* C6: every call of run_session, a second or later call on the same object
\* included, starts from task_skips = 0, continuous_work_minutes = 0,
\* interventions = 0 and an empty observability_log.
C6_RunStartsFromZero ==
    pc # "idle" => run_start = Counters(NewSessionData)

RunPattern ==
    << <<"TwinBuilder", "profile_updated">>, <<"Planner", "schedule_generated">>,
       <<"Sentinel", "alert_check">>, <<"Sentinel", "alert_check">>,
       <<"Sentinel", "alert_check">>, <<"Sentinel", "alert_check">>,
       <<"Sentinel", "alert_check">>, <<"Evaluator", "session_complete">> >>

C7_Shape ==
    /\ step \in 0..5
    /\ Len(Log) = CASE pc = "idle"    -> 8 * runs
                    [] pc = "planner" -> 8 * (runs - 1) + 1
                    [] pc = "loop"    -> 8 * (runs - 1) + 2 + step
    /\ \A i \in DOMAIN Log : <<Log[i].agent, Log[i].event>> = RunPattern[((i - 1) % 8) + 1]

C7_Appends ==
    (pc # "idle" \/ pc' # "idle") =>
        /\ Len(session_data'.observability_log) = Len(Log) + 1
        /\ SubSeq(session_data'.observability_log, 1, Len(Log)) = Log

\* C7: every call of run_session ends after exactly 5 monitoring steps and appends
\* to observability_log, in this order and nothing else: one TwinBuilder
\* profile_updated entry, one Planner schedule_generated entry, five Sentinel
\* alert_check entries and one Evaluator session_complete entry; entries already in
\* the log are never removed or altered.
C7_RunLog ==
    /\ []C7_Shape
    /\ [][C7_Appends]_vars
    /\ (pc # "idle") ~> (pc = "idle")

C7_Witness ==
    /\ pc = "idle"
    /\ runs = 2
    /\ Len(Log) = 16
    /\ Log[14].data.severity = "HIGH"

\* the Sentinel entries among the first n log entries whose severity is not LOW
Alerts(n) ==
    { i \in 1..n : /\ Log[i].agent = "Sentinel"
                   /\ Log[i].event = "alert_check"
                   /\ Log[i].data.severity # "LOW" }

\* C8: between loop steps the interventions counter equals the number of Sentinel
\* alert_check entries whose severity is not LOW, the Coach has intervened exactly
\* that often, and the alerts_triggered of every Evaluator entry is the counter as
\* it stood then.
C8_InterventionsCount ==
    /\ session_data.interventions = Cardinality(Alerts(Len(Log)))
    /\ coach_delivered = session_data.interventions
    /\ \A i \in DOMAIN Log :
          Log[i].agent = "Evaluator" =>
              Log[i].data.alerts_triggered = Cardinality(Alerts(i))

C8_Witness ==
    /\ pc = "idle"
    /\ runs = 2
    /\ session_data.interventions = 7
    /\ Log[16].data.alerts_triggered = 7

\* C9: the row of user id u changes only in a save_profile of a profile of u or a
\* build_profile for u; a load_profile changes no row.
C9_Frame ==
    [][ \A u \in UserIds :
          store'[u] # store[u] => (op'.name \in {"save", "build"} /\ op'.user = u)
      ]_vars

C9_Witness ==
    /\ op.name = "load"
    /\ store[op.user] = NoRow
    /\ \E v \in UserIds : store[v] # NoRow

ExpectedSeverity == <<"LOW", "LOW", "LOW", "MEDIUM", "MEDIUM">>

\* the loop steps the current run has finished
StepsDone == IF pc = "loop" THEN step ELSE IF pc = "idle" /\ runs > 0 THEN 5 ELSE 0

====
